---- MODULE Spec2Model ----
(***************************************************************************)
(* The agentic tool-calling conversation engine (runChatEngine), its       *)
(* credential lifecycle (ensureValidToken) and the vault tool registry     *)
(* (executeVaultTool), as a state machine.                                 *)
(*                                                                         *)
(* One run of runChatEngine is one async function.  JavaScript runs the    *)
(* code between two awaits without interruption, so every action below is  *)
(* one such segment; pc names the await (or loop head) the run is at.      *)
(*                                                                         *)
(* Texts (message contents, error descriptions, file contents) are         *)
(* sequences of tokens; concatenation is \o and String.includes is the     *)
(* search of a token sequence in a token sequence.                         *)
(***************************************************************************)
EXTENDS Integers, Sequences, FiniteSets, TLC

VARIABLES
    pc,             \* where the run is: "loop", "fetchToken", "request", "tools", "dispatch", "done"
    iteration,      \* the for loop's counter
    maxIterations,  \* options.maxIterations
    aborted,        \* options.abortSignal.aborted
    history,        \* the caller-owned history passed to the run
    newMessages,    \* the run's own list of new messages
    streamResult,   \* the current round's result of sendChatCompletionStream
    tcIdx,          \* position of the tool loop in streamResult.toolCalls (1-based)
    authState,      \* the shared authentication state (plugin.settings.authState)
    now,            \* Date.now(), in milliseconds
    vault,          \* the vault: path -> content of every existing file
    pool,           \* what the remote model may answer in this run
    published,      \* the list last passed to onMessage
    toolCallLog,    \* every outcome passed to onToolCall, in order
    errorLog,       \* every description passed to onError, in order
    responses,      \* every streamResult the transport returned, in order
    requests,       \* number of completion requests sent (requestUrl calls)
    dispatchLog,    \* every tool call handed to executeVaultTool, with its iteration, in order
    caught,         \* the message of every error the catch block of an iteration caught
    abortedAt,      \* where the run was when the signal was set: [pc, iteration, tcIdx]
    systemPrompt,   \* options.systemPrompt
    sent,           \* the messages array of every completion request sent, in order
    view,           \* the chat view: isProcessing, abortRef, conversationHistory and its runs
    stream,         \* the transport reading one response: fragments left, accumulator, result
    enableTools,    \* options.enableTools
    sentTools,      \* the tool declarations of every completion request sent, in order
    tokenLog        \* what the latest call of ensureValidToken did, in order

vars == <<pc, iteration, maxIterations, aborted, history, newMessages, streamResult,
          tcIdx, authState, now, vault, pool, published, toolCallLog, errorLog,
          responses, requests, dispatchLog, caught, abortedAt, systemPrompt, sent, view,
          stream, enableTools, sentTools, tokenLog>>

-----------------------------------------------------------------------------
(* Bounds *)

MaxIter == 2
MaxCalls == 2
MaxTime == 2
MaxRuns == 3
MaxFrags == 3
MaxAssemblies == 2

(* Date.now() is in milliseconds, expiresAt in seconds. *)
MsPerSec == 1000

-----------------------------------------------------------------------------
(* Texts *)

\* String.prototype.includes on token sequences.
Includes(text, pat) ==
    \E i \in 1..(Len(text) - Len(pat) + 1) : SubSeq(text, i, i + Len(pat) - 1) = pat

\* Index of the first occurrence of pat in text (text includes pat).
IndexOf(text, pat) ==
    CHOOSE i \in 1..(Len(text) - Len(pat) + 1) :
        /\ SubSeq(text, i, i + Len(pat) - 1) = pat
        /\ \A j \in 1..(i - 1) : SubSeq(text, j, j + Len(pat) - 1) # pat

\* content.replace(oldText, newText): the first occurrence only.
ReplaceFirst(text, pat, new) ==
    LET i == IndexOf(text, pat)
    IN  SubSeq(text, 1, i - 1) \o new \o SubSeq(text, i + Len(pat), Len(text))

\* content.split(oldText).length - 1: the non-overlapping occurrences, left to right.
RECURSIVE Occurrences(_, _)
Occurrences(text, pat) ==
    IF Len(pat) = 0 \/ ~Includes(text, pat) THEN 0
    ELSE 1 + Occurrences(SubSeq(text, IndexOf(text, pat) + Len(pat), Len(text)), pat)

-----------------------------------------------------------------------------
(* Conversation messages *)

\* toolCallId of a message that has none (undefined); distinct from the empty id "".
NoId == "<undefined>"

\* toolCalls undefined and toolCalls [] are both written <<>>: the code only ever
\* tests msg.toolCalls && msg.toolCalls.length > 0.
UserMsg(content) ==
    [role |-> "user", content |-> content, toolCalls |-> <<>>, toolCallId |-> NoId]

AssistantMsg(content, toolCalls) ==
    [role |-> "assistant", content |-> content, toolCalls |-> toolCalls, toolCallId |-> NoId]

\* ToolMsg without the correlation id.
ToolMsgWithoutId(content, toolCallId) ==
    [role |-> "tool", content |-> content, toolCalls |-> <<>>, toolCallId |-> NoId]

ToolMsg(content, toolCallId) ==
    [role |-> "tool", content |-> content, toolCalls |-> <<>>, toolCallId |-> toolCallId]

\* ErrorText without the prefix.
ErrorTextBare(errorMsg) == errorMsg

\* `Error: ${errorMsg}`
ErrorText(errorMsg) == <<"Error: ">> \o errorMsg

-----------------------------------------------------------------------------
(* Tool-call argument texts and JSON.parse *)

ArgsReadA == "{\"path\":\"/a.md\"}"
ArgsReadZ == "{\"path\":\"zz.md\"}"
ArgsEditMiss == "{\"path\":\"a.md\",\"oldText\":\"gamma\",\"newText\":\"delta\"}"
ArgsEditHit == "{\"path\":\"a.md\",\"oldText\":\"beta\",\"newText\":\"delta\"}"
ArgsWriteB == "{\"path\":\"b.md\",\"content\":\"beta\"}"
ArgsBad == "{bad json"

\* JSON.parse of an argument text: ok is FALSE when it throws.  String values that
\* are file paths stay strings, string values that are file text are token sequences.
JSONParse(text) ==
    CASE text = "{}" -> [ok |-> TRUE, value |-> <<>>]
      [] text = ArgsReadA -> [ok |-> TRUE, value |-> [path |-> "/a.md"]]
      [] text = ArgsReadZ -> [ok |-> TRUE, value |-> [path |-> "zz.md"]]
      [] text = ArgsEditMiss ->
            [ok |-> TRUE,
             value |-> [path |-> "a.md", oldText |-> <<"gamma">>, newText |-> <<"delta">>]]
      [] text = ArgsEditHit ->
            [ok |-> TRUE,
             value |-> [path |-> "a.md", oldText |-> <<"beta">>, newText |-> <<"delta">>]]
      [] text = ArgsWriteB ->
            [ok |-> TRUE, value |-> [path |-> "b.md", content |-> <<"beta">>]]
      [] OTHER -> [ok |-> FALSE, value |-> <<>>]

\* JSON.parse(toolCall.function.arguments || "{}")
ParseArguments(arguments) == JSONParse(IF arguments = "" THEN "{}" ELSE arguments)

-----------------------------------------------------------------------------
(* The tool registry: executeVaultTool and the tool implementations.        *)
(* A dispatch yields [raised, text, vault]: whether it threw, the returned  *)
(* string (or the thrown error's message), and the vault it leaves.         *)

\* The names getVaultToolDefinitions declares.
DeclaredTools ==
    {"vault_list_files", "vault_read_file", "vault_write_file", "vault_edit_file",
     "vault_search", "vault_delete_file", "vault_rename_file", "vault_create_folder",
     "vault_get_active_file", "vault_append_to_file", "vault_insert_at_line"}

\* The arguments the declarations of the tools modelled here require.
RequiredArgs(toolName) ==
    CASE toolName = "vault_read_file" -> {"path"}
      [] toolName = "vault_write_file" -> {"path", "content"}
      [] toolName = "vault_edit_file" -> {"path", "oldText", "newText"}
      [] toolName = "vault_delete_file" -> {"path"}
      [] OTHER -> {}

Returned(text, v) == [raised |-> FALSE, text |-> text, vault |-> v]

\* Raised of a registry that answers a failure as a text instead of throwing.
RaisedAsText(message, v) == [raised |-> FALSE, text |-> <<"Error: ">> \o message, vault |-> v]

\* throw new Error(message)
Raised(message, v) == [raised |-> TRUE, text |-> message, vault |-> v]

\* obsidian's normalizePath on the paths used here: a leading slash is dropped.
normalizePath(path) == IF path = "/a.md" THEN "a.md" ELSE path

\* !args.x for a path argument (a string): undefined or "".
NoPath(args, key) == key \notin DOMAIN args \/ args[key] = ""

\* !args.x for a text argument: undefined or "".
NoText(args, key) == key \notin DOMAIN args \/ args[key] = <<>>

\* app.vault.getAbstractFileByPath(p) finds a file (the vault holds no folders but the root).
FileExists(v, p) == p \in DOMAIN v

readFile(v, args) ==
    IF NoPath(args, "path") THEN Returned(<<"Error: ", "path is required">>, v)
    ELSE IF ~FileExists(v, normalizePath(args.path))
         THEN Returned(<<"Error: ", "File not found: ", args.path>>, v)
         ELSE Returned(v[normalizePath(args.path)], v)

writeFile(v, args) ==
    IF NoPath(args, "path") THEN Returned(<<"Error: ", "path is required">>, v)
    ELSE IF "content" \notin DOMAIN args
         THEN Returned(<<"Error: ", "content is required">>, v)
         ELSE LET normalized == normalizePath(args.path)
              IN  IF FileExists(v, normalized)
                  THEN Returned(<<"File updated: ", normalized>>,
                                [v EXCEPT ![normalized] = args.content])
                  ELSE Returned(<<"File created: ", normalized>>,
                                (normalized :> args.content) @@ v)

editFile(v, args) ==
    IF NoPath(args, "path") THEN Returned(<<"Error: ", "path is required">>, v)
    ELSE IF NoText(args, "oldText") THEN Returned(<<"Error: ", "oldText is required">>, v)
    ELSE IF "newText" \notin DOMAIN args
         THEN Returned(<<"Error: ", "newText is required">>, v)
    ELSE IF ~FileExists(v, normalizePath(args.path))
         THEN Returned(<<"Error: ", "File not found: ", args.path>>, v)
    ELSE LET file == normalizePath(args.path)
             content == v[file]
         IN  IF ~Includes(content, args.oldText)
             THEN Returned(<<"Error: ", "Could not find the specified text in ", args.path,
                             ". The oldText must match exactly.">>, v)
             ELSE Returned(<<"File edited: ", args.path, " (",
                             ToString(Occurrences(content, args.oldText)),
                             " occurrence(s) found, first one replaced)">>,
                           [v EXCEPT ![file] = ReplaceFirst(content, args.oldText, args.newText)])

deleteFile(v, args) ==
    IF NoPath(args, "path") THEN Returned(<<"Error: ", "path is required">>, v)
    ELSE IF ~FileExists(v, normalizePath(args.path))
         THEN Returned(<<"Error: ", "File not found: ", args.path>>, v)
         ELSE Returned(<<"File deleted (moved to trash): ", args.path>>,
                       [p \in DOMAIN v \ {normalizePath(args.path)} |-> v[p]])

\* The switch of executeVaultTool.  Tool names are drawn from the four tools
\* modelled here and from names the registry does not declare.
executeVaultTool(v, toolName, args) ==
    CASE toolName = "vault_read_file" -> readFile(v, args)
      [] toolName = "vault_write_file" -> writeFile(v, args)
      [] toolName = "vault_edit_file" -> editFile(v, args)
      [] toolName = "vault_delete_file" -> deleteFile(v, args)
      [] OTHER -> Raised(<<"Unknown tool: ", toolName>>, v)

-----------------------------------------------------------------------------
(* Completion responses *)

ToolCall(id, name, arguments) ==
    [id |-> id, type |-> "function", function |-> [name |-> name, arguments |-> arguments]]

\* The narrative text and the finish reason of a response: every finish reason
\* the loop tells apart, with and without narrative text.
Outcomes ==
    { [content |-> <<"hi">>, finishReason |-> "stop"],
      [content |-> <<>>, finishReason |-> "tool_calls"],
      [content |-> <<"hi">>, finishReason |-> "function_call"] }

\* The outcomes of a model that never reports the legacy finish reason.
CurrentOutcomes == {o \in Outcomes : o.finishReason # "function_call"}

\* The outcomes of a model that always asks to go on.
ContinuingOutcomes == {o \in Outcomes : o.finishReason = "tool_calls"}

\* What the remote model may answer in one run, as the tool calls it may ask for
\* and the outcomes it may report: a read that succeeds and a tool the registry
\* does not know; malformed arguments and an edit whose oldText is not in the
\* file; a read without a path; a read of a missing file; an edit that matches
\* once; a write of a new file under an empty id.
Pools ==
    { [calls |-> {ToolCall("c1", "vault_read_file", ArgsReadA),
                  ToolCall("c2", "vault_frobnicate", "")},
       outcomes |-> CurrentOutcomes],
      [calls |-> {ToolCall("c1", "vault_read_file", ArgsBad),
                  ToolCall("c2", "vault_edit_file", ArgsEditMiss)},
       outcomes |-> CurrentOutcomes],
      [calls |-> {ToolCall("c1", "vault_read_file", "")}, outcomes |-> Outcomes],
      [calls |-> {ToolCall("c1", "vault_read_file", ArgsReadZ)}, outcomes |-> Outcomes],
      [calls |-> {ToolCall("c3", "vault_edit_file", ArgsEditHit)}, outcomes |-> Outcomes],
      [calls |-> {ToolCall("", "vault_write_file", ArgsWriteB)}, outcomes |-> Outcomes] }

ToolCallLists(p) == UNION {[1..n -> p] : n \in 0..MaxCalls}

\* The values sendChatCompletionStream can return.
StreamResults(p) ==
    { [content |-> o.content, toolCalls |-> l, finishReason |-> o.finishReason] :
        o \in p.outcomes, l \in ToolCallLists(p.calls) }

\* What requestUrl can fail with (the message of the error it throws).
\* A connection the server drops before the response is complete fails with "aborted".
TransportErrors == {<<"Request failed, status 500">>, <<"abort", "ed">>}

-----------------------------------------------------------------------------
(* The transport's tool-call accumulator: sendChatCompletionStream.          *)
(* A fragment is one element of delta.tool_calls; an absent id or name is    *)
(* written "" (both are falsy and both default to ""), an argument text is a *)
(* sequence of tokens.  The accumulator is the Map's entries in insertion    *)
(* order.                                                                    *)

\* tc.index undefined
NoIndex == -1

Fragment(index, id, name, arguments) ==
    [index |-> index, id |-> id, name |-> name, arguments |-> arguments]

\* The fragments a response may be made of: the opening fragment of call 0, two
\* argument fragments of call 0, a whole call 1, and a fragment without index
\* that supplies another id.
Fragments ==
    { Fragment(0, "c1", "vault_read_file", <<>>),
      Fragment(0, "", "", <<"a">>),
      Fragment(0, "", "", <<"b">>),
      Fragment(1, "c2", "vault_edit_file", <<"a">>),
      Fragment(NoIndex, "c3", "", <<>>) }

FragmentSeqs == UNION {[1..n -> Fragments] : n \in 0..MaxFrags}

\* tc.index ?? 0
EffectiveIndex(tc) == IF tc.index = NoIndex THEN 0 ELSE tc.index

\* OverwriteIfSupplied that keeps the first value.
KeepFirstSupplied(old, new) == IF old # "" THEN old ELSE new

\* if (tc.id) acc.id = tc.id;  if (tc.function?.name) acc.name = tc.function.name;
OverwriteIfSupplied(old, new) == IF new # "" THEN new ELSE old

\* One pass of the loop over delta.tool_calls.
Accumulate(acc, tc) ==
    LET idx == EffectiveIndex(tc)
        has == \E i \in 1..Len(acc) : acc[i].index = idx
        set == IF has THEN acc
               ELSE Append(acc, [index |-> idx, id |-> tc.id, name |-> tc.name,
                                 arguments |-> <<>>])
    IN  [i \in 1..Len(set) |->
            IF set[i].index = idx
            THEN [set[i] EXCEPT !.id = OverwriteIfSupplied(@, tc.id),
                                !.name = OverwriteIfSupplied(@, tc.name),
                                !.arguments = @ \o tc.arguments]
            ELSE set[i]]

\* The entry of the least index.
Least(entries) ==
    CHOOSE i \in 1..Len(entries) : \A j \in 1..Len(entries) : entries[i].index <= entries[j].index

Without(entries, i) == SubSeq(entries, 1, i - 1) \o SubSeq(entries, i + 1, Len(entries))

\* SortedEntries of a transport that emits the entries in insertion order.
RECURSIVE InsertionOrderEntries(_)
InsertionOrderEntries(entries) ==
    IF entries = <<>> THEN <<>>
    ELSE <<Head(entries)>> \o InsertionOrderEntries(Tail(entries))

\* [...toolCallAccumulator.entries()].sort(([a], [b]) => a - b)
RECURSIVE SortedEntries(_)
SortedEntries(entries) ==
    IF entries = <<>> THEN <<>>
    ELSE <<entries[Least(entries)]>> \o SortedEntries(Without(entries, Least(entries)))

\* The final tool calls array.
FinalToolCalls(acc) ==
    LET sorted == SortedEntries(acc)
    IN  [i \in 1..Len(sorted) |-> ToolCall(sorted[i].id, sorted[i].name, sorted[i].arguments)]

IdleStream ==
    [arrived |-> <<>>, pending |-> <<>>, acc |-> <<>>, keys |-> <<>>, toolCalls |-> <<>>,
     finished |-> TRUE]

\* The next fragment of the response is merged into the accumulator.
AccumulateFragment ==
    /\ stream.pending # <<>>
    /\ stream' = [stream EXCEPT !.pending = Tail(@),
                                 !.acc = Accumulate(@, Head(stream.pending))]

\* The response is read: the entries are sorted by index and the tool calls built.
FinalizeStream ==
    /\ stream.pending = <<>>
    /\ ~stream.finished
    /\ stream' = [stream EXCEPT
                     !.keys = [i \in 1..Len(stream.acc) |-> SortedEntries(stream.acc)[i].index],
                     !.toolCalls = FinalToolCalls(stream.acc),
                     !.finished = TRUE]

-----------------------------------------------------------------------------
(* Credentials: ensureValidToken *)

\* A null token; a null expiresAt is written 0 (both are falsy).
Null == "<null>"

Auth(token, expiresAt, pat) ==
    [accessToken |-> [token |-> token, expiresAt |-> expiresAt], pat |-> pat]

\* TokenIsValid that never looks at the clock.
TokenIsValidUnexpiring(auth, t) ==
    /\ auth.accessToken.token # Null
    /\ auth.accessToken.expiresAt # 0

\* accessToken.token && accessToken.expiresAt && Date.now() < accessToken.expiresAt * 1000
TokenIsValid(auth, t) ==
    /\ auth.accessToken.token # Null
    /\ auth.accessToken.expiresAt # 0
    /\ t < auth.accessToken.expiresAt * MsPerSec

\* throw new Error("Not authenticated. Please sign in first.")
NotAuthenticated == <<"Not authenticated. Please sign in first.">>

\* What fetchToken can answer at time t: a fresh token that is already expired,
\* lives one more second, or outlives the run.
TokenResponses(t) ==
    [token : {"tokB"}, expires_at : {t \div MsPerSec, t \div MsPerSec + 1, MaxTime + 1}]

\* What a call of ensureValidToken does, as the events it leaves in tokenLog (which
\* starts afresh with every call): the
\* call with the state and time it found, the refresh it starts, the update it
\* hands to onUpdate, and the token it returns or the failure it throws.
Called(auth, t) == [event |-> "call", auth |-> auth, now |-> t]
Fetching(pat) == [event |-> "fetchToken", pat |-> pat]
Updated(update) == [event |-> "onUpdate", update |-> update]
ReturnedToken(token) == [event |-> "return", token |-> token]
Threw(message) == [event |-> "throw", message |-> message]

\* TokenAfterRefresh that returns the token cached before the refresh.
TokenAfterRefreshCached(auth, tokenResponse) == auth.accessToken.token

\* return tokenResponse.token
TokenAfterRefresh(auth, tokenResponse) == tokenResponse.token

\* onAuthUpdate that writes the update to a copy of the state the run reads.
onAuthUpdateToCopy(auth, update) == auth

\* onAuthUpdate of the chat view: Object.assign(plugin.settings.authState, auth),
\* on the very object the run reads.
onAuthUpdate(auth, update) == [auth EXCEPT !.accessToken = update.accessToken]

-----------------------------------------------------------------------------
(* Request assembly: buildApiMessages *)

\* content: null of a ChatMessage, written as a text no message content can be.
NullContent == <<Null>>

\* The built-in system instruction for the vault tools.
BuiltinInstruction ==
    <<"You are a helpful AI assistant embedded in Obsidian, a note-taking application.">>

SystemMsg(content) ==
    [role |-> "system", content |-> content, tool_calls |-> <<>>, tool_call_id |-> NoId]

\* What one conversation message contributes to the request: a user or assistant
\* message one entry, with its tool calls attached and a blank content made null
\* when it has tool calls; a tool message one entry when its toolCallId is truthy;
\* anything else nothing.
ApiEntry(msg) ==
    IF msg.role \in {"user", "assistant"}
    THEN <<[role |-> msg.role,
            content |-> IF msg.toolCalls # <<>> /\ msg.content = <<>>
                        THEN NullContent ELSE msg.content,
            tool_calls |-> msg.toolCalls,
            tool_call_id |-> NoId]>>
    ELSE IF msg.role = "tool" /\ msg.toolCallId \notin {NoId, ""}
         THEN <<[role |-> "tool", content |-> msg.content, tool_calls |-> <<>>,
                 tool_call_id |-> msg.toolCallId]>>
         ELSE <<>>

\* The for loops over history and over newMessages.
RECURSIVE ApiEntries(_)
ApiEntries(msgs) ==
    IF msgs = <<>> THEN <<>> ELSE ApiEntry(Head(msgs)) \o ApiEntries(Tail(msgs))

\* buildApiMessages with the two system instructions in the other order.
buildApiMessagesBuiltinFirst(prompt, hist, new) ==
    <<SystemMsg(BuiltinInstruction)>>
    \o (IF prompt # <<>> THEN <<SystemMsg(prompt)>> ELSE <<>>)
    \o ApiEntries(hist) \o ApiEntries(new)

buildApiMessages(prompt, hist, new) ==
    (IF prompt # <<>> THEN <<SystemMsg(prompt)>> ELSE <<>>)
    \o <<SystemMsg(BuiltinInstruction)>>
    \o ApiEntries(hist) \o ApiEntries(new)

\* Assemble that takes the new messages off the list as it reads them.
AssembleDraining ==
    /\ Len(sent) < MaxAssemblies
    /\ sent' = Append(sent, buildApiMessages(systemPrompt, history, newMessages))
    /\ newMessages' = <<>>
    /\ UNCHANGED <<systemPrompt, history>>

\* One call of buildApiMessages on the run's system prompt, history and new
\* messages, its result kept in sent. It reads the three and writes none of them.
Assemble ==
    /\ Len(sent) < MaxAssemblies
    /\ sent' = Append(sent, buildApiMessages(systemPrompt, history, newMessages))
    /\ UNCHANGED <<systemPrompt, history, newMessages>>

-----------------------------------------------------------------------------
(* The agentic loop: runChatEngine *)

\* LoopGuard off by one.
LoopGuardInclusive(i, max) == i <= max

\* for (...; iteration < maxIterations; ...)
LoopGuard(i, max) == i < max

\* if (abortSignal?.aborted) at the top of an iteration
AbortedAtTop(signal) == signal

\* AbortedInToolLoop of a tool loop that never looks at the signal.
AbortedInToolLoopUnchecked(signal) == FALSE

\* if (abortSignal?.aborted) break; at the head of the tool loop
AbortedInToolLoop(signal) == signal

\* NoToolCalls that also waits for a finish reason outside the continuation set.
NoToolCallsAndStopped(result) ==
    Len(result.toolCalls) = 0 /\ result.finishReason \notin {"tool_calls", "function_call"}

\* if (streamResult.toolCalls.length === 0) break;
NoToolCalls(result) == Len(result.toolCalls) = 0

\* ContinuationSet of a loop that goes on while the response carried tool calls.
ContinuationSetAnyReason == {"tool_calls", "function_call", "stop"}

\* finish reasons after which the loop goes on
ContinuationSet == {"tool_calls", "function_call"}

\* ParseFailureText that leaves the argument text out.
ParseFailureTextWithoutArguments(arguments) == <<"Error: ", "Failed to parse arguments">>

\* `Error: Failed to parse arguments: ${toolCall.function.arguments}`
ParseFailureText(arguments) == <<"Error: ", "Failed to parse arguments: ", arguments>>

\* IsAbort that goes by the error's message alone.
IsAbortByMessage(signal, errorMsg) ==
    Includes(errorMsg, <<"abort">>) \/ Includes(errorMsg, <<"AbortError">>)

\* const tools = enableTools ? getVaultToolDefinitions() : undefined, as the names
\* declared in the request (none when undefined).
ToolsFor(enable) == IF enable THEN DeclaredTools ELSE {}

\* The abort test of the catch block.
IsAbort(signal, errorMsg) ==
    signal \/ Includes(errorMsg, <<"abort">>) \/ Includes(errorMsg, <<"AbortError">>)

\* The outcome object handed to onToolCall.
ToolCallResult(toolCall, args, status, result, error) ==
    [toolCallId |-> toolCall.id, toolName |-> toolCall.function.name, args |-> args,
     status |-> status, result |-> result, error |-> error]

\* Catch of a loop whose iterations have no try block: the failure leaves
\* runChatEngine as a rejection of its promise.
CatchRethrowing(errorMsg) ==
    /\ pc' = "threw"
    /\ caught' = Append(caught, errorMsg)
    /\ UNCHANGED <<newMessages, published, errorLog>>

\* The catch block of an iteration: silent on abort, else onError, one assistant
\* error message, onMessage; the loop is left either way.
Catch(errorMsg) ==
    /\ pc' = "done"
    /\ caught' = Append(caught, errorMsg)
    /\ IF IsAbort(aborted, errorMsg)
       THEN UNCHANGED <<newMessages, published, errorLog>>
       ELSE /\ errorLog' = Append(errorLog, errorMsg)
            /\ newMessages' = Append(newMessages, AssistantMsg(ErrorText(errorMsg), <<>>))
            /\ published' = newMessages'

\* throw new Error("Request aborted")
RequestAborted == <<"Request ", "abort", "ed">>

\* SendRequest of a transport that does not look at the signal before sending.
SendRequestUnchecked ==
    /\ pc' = "request"
    /\ requests' = requests + 1
    /\ sent' = Append(sent, buildApiMessages(systemPrompt, history, newMessages))
    /\ sentTools' = Append(sentTools, ToolsFor(enableTools))
    /\ UNCHANGED <<newMessages, published, errorLog, caught>>

\* sendChatCompletionStream up to its await: throws when the signal is set, else
\* sends the request.
SendRequest ==
    IF aborted
    THEN /\ Catch(RequestAborted)
         /\ UNCHANGED <<requests, sent, sentTools>>
    ELSE /\ pc' = "request"
         /\ requests' = requests + 1
         /\ sent' = Append(sent, buildApiMessages(systemPrompt, history, newMessages))
         /\ sentTools' = Append(sentTools, ToolsFor(enableTools))
         /\ UNCHANGED <<newMessages, published, errorLog, caught>>

\* The head of the for loop, and an iteration up to its first await that waits:
\* ensureValidToken, then the completion request.
LoopTop ==
    /\ pc = "loop"
    /\ IF ~LoopGuard(iteration, maxIterations) \/ AbortedAtTop(aborted)
       THEN /\ pc' = "done"
            /\ UNCHANGED <<newMessages, published, errorLog, requests, sent, sentTools, caught,
                           tokenLog>>
       ELSE IF TokenIsValid(authState, now)
            THEN /\ tokenLog' = <<Called(authState, now),
                                   ReturnedToken(authState.accessToken.token)>>
                 /\ SendRequest
       ELSE IF authState.pat = Null
            THEN /\ tokenLog' = <<Called(authState, now), Threw(NotAuthenticated)>>
                 /\ Catch(NotAuthenticated)
                 /\ UNCHANGED <<requests, sent, sentTools>>
            ELSE /\ tokenLog' = <<Called(authState, now), Fetching(authState.pat)>>
                 /\ pc' = "fetchToken"
                 /\ UNCHANGED <<newMessages, published, errorLog, requests, sent, sentTools, caught>>
    /\ UNCHANGED <<iteration, maxIterations, aborted, history, systemPrompt, view, stream,
                   enableTools, streamResult, tcIdx, authState, now, vault, pool, toolCallLog,
                   responses, dispatchLog, abortedAt>>

\* fetchToken answers: onUpdate, and the iteration goes on to the completion request.
FetchTokenReturn ==
    /\ pc = "fetchToken"
    /\ \E r \in TokenResponses(now) :
         LET update == [accessToken |-> [token |-> r.token, expiresAt |-> r.expires_at]]
         IN  /\ authState' = onAuthUpdate(authState, update)
             /\ tokenLog' = tokenLog \o <<Updated(update),
                                           ReturnedToken(TokenAfterRefresh(authState, r))>>
    /\ SendRequest
    /\ UNCHANGED <<iteration, maxIterations, aborted, history, systemPrompt, view, stream,
                   enableTools, streamResult, tcIdx, now, vault, pool, toolCallLog, responses,
                   dispatchLog, abortedAt>>

\* fetchToken fails.
FetchTokenFail ==
    /\ pc = "fetchToken"
    /\ \E e \in TransportErrors :
         /\ Catch(e)
         /\ tokenLog' = Append(tokenLog, Threw(e))
    /\ UNCHANGED <<iteration, maxIterations, aborted, history, systemPrompt, view, stream,
                   enableTools, streamResult, tcIdx, authState, now, vault, pool, toolCallLog,
                   responses, requests, sent, sentTools, dispatchLog, abortedAt>>

\* ReceiveResponse that appends the assistant message and leaves the publishing
\* to the end of the tool loop.
ReceiveResponseUnpublished ==
    /\ pc = "request"
    /\ \E r \in StreamResults(pool) :
         /\ streamResult' = r
         /\ responses' = Append(responses, r)
         /\ newMessages' = Append(newMessages, AssistantMsg(r.content, r.toolCalls))
         /\ pc' = IF NoToolCalls(r) THEN "done" ELSE "tools"
    /\ published' = published
    /\ tcIdx' = 1
    /\ UNCHANGED <<iteration, maxIterations, aborted, history, systemPrompt, view, stream, enableTools, authState, now, vault, pool,
                   toolCallLog, errorLog, requests, sent, sentTools, dispatchLog, caught, abortedAt, tokenLog>>

\* The completion request answers: the assistant message is appended and
\* published; without tool calls the loop is left, else the tool loop starts.
ReceiveResponse ==
    /\ pc = "request"
    /\ \E r \in StreamResults(pool) :
         /\ streamResult' = r
         /\ responses' = Append(responses, r)
         /\ newMessages' = Append(newMessages, AssistantMsg(r.content, r.toolCalls))
         /\ pc' = IF NoToolCalls(r) THEN "done" ELSE "tools"
    /\ published' = newMessages'
    /\ tcIdx' = 1
    /\ UNCHANGED <<iteration, maxIterations, aborted, history, systemPrompt, view, stream, enableTools, authState, now, vault, pool,
                   toolCallLog, errorLog, requests, sent, sentTools, dispatchLog, caught, abortedAt, tokenLog>>

\* The completion request fails.
RequestFail ==
    /\ pc = "request"
    /\ \E e \in TransportErrors : Catch(e)
    /\ UNCHANGED <<iteration, maxIterations, aborted, history, systemPrompt, view, stream, enableTools, streamResult, tcIdx,
                   authState, now, vault, pool, toolCallLog, responses, requests, sent, sentTools, dispatchLog,
                   abortedAt, tokenLog>>

\* NextIteration of a for loop that never advances.
NextIterationStuck(i) == i

\* iteration++
NextIteration(i) == i + 1

\* ToolLoopOver of a tool loop that serves the first call of a round only.
ToolLoopOverAfterFirst(i, calls, signal) == i > 1 \/ AbortedInToolLoop(signal)

\* for (const toolCall of streamResult.toolCalls) { if (abortSignal?.aborted) break;
\* the loop is over past the last call, or at any call once the signal is set.
ToolLoopOver(i, calls, signal) == i > Len(calls) \/ AbortedInToolLoop(signal)

\* StatusAtDispatch of a tool loop that announces a call as pending.
StatusAtDispatchPending == "pending"

\* status: "running", the status of the outcome published before the dispatch.
StatusAtDispatch == "running"

\* AwaitDispatch of a tool loop that starts executeVaultTool and goes on to the
\* next call without waiting for it.
DispatchWithoutAwait ==
    /\ pc' = "tools"
    /\ tcIdx' = tcIdx + 1

\* await executeVaultTool(...): the run waits at this call until it settles.
AwaitDispatch ==
    /\ pc' = "dispatch"
    /\ tcIdx' = tcIdx

\* One pass of the tool loop up to the await of executeVaultTool: the arguments
\* are parsed; on a parse failure the error message is recorded and the loop goes
\* to the next call, else the outcome is published as running and the call is
\* dispatched.
ToolStep ==
    /\ pc = "tools"
    /\ ~ToolLoopOver(tcIdx, streamResult.toolCalls, aborted)
    /\ LET toolCall == streamResult.toolCalls[tcIdx]
           parsed == ParseArguments(toolCall.function.arguments)
       IN  IF ~parsed.ok
           THEN /\ newMessages' = Append(newMessages,
                        ToolMsg(ParseFailureText(toolCall.function.arguments), toolCall.id))
                /\ toolCallLog' = Append(toolCallLog,
                        ToolCallResult(toolCall, <<>>, "error", <<>>,
                                       <<"Failed to parse arguments">>))
                /\ tcIdx' = tcIdx + 1
                /\ UNCHANGED <<pc, dispatchLog>>
           ELSE /\ toolCallLog' = Append(toolCallLog,
                        ToolCallResult(toolCall, parsed.value, StatusAtDispatch, <<>>, <<>>))
                /\ dispatchLog' = Append(dispatchLog,
                        [iteration |-> iteration, toolCall |-> toolCall])
                /\ AwaitDispatch
                /\ UNCHANGED newMessages
    /\ UNCHANGED <<iteration, maxIterations, aborted, history, systemPrompt, view, stream, enableTools, streamResult, authState, now,
                   vault, pool, published, errorLog, responses, requests, sent, sentTools, caught, abortedAt, tokenLog>>

\* ToolReturn that pushes the tool message onto the history as well.
ToolReturnIntoHistory ==
    /\ pc = "dispatch"
    /\ LET toolCall == streamResult.toolCalls[tcIdx]
           args == ParseArguments(toolCall.function.arguments).value
           out == executeVaultTool(vault, toolCall.function.name, args)
       IN  /\ vault' = out.vault
           /\ IF ~out.raised
              THEN /\ toolCallLog' = Append(toolCallLog,
                           ToolCallResult(toolCall, args, "success", out.text, <<>>))
                   /\ newMessages' = Append(newMessages, ToolMsg(out.text, toolCall.id))
              ELSE /\ toolCallLog' = Append(toolCallLog,
                           ToolCallResult(toolCall, args, "error", <<>>, out.text))
                   /\ newMessages' = Append(newMessages,
                           ToolMsg(ErrorText(out.text), toolCall.id))
    /\ tcIdx' = tcIdx + 1
    /\ pc' = "tools"
    /\ history' = Append(history, newMessages'[Len(newMessages')])
    /\ UNCHANGED <<iteration, maxIterations, aborted, systemPrompt, view, stream, enableTools, streamResult, authState, now,
                   pool, published, errorLog, responses, requests, sent, sentTools, dispatchLog, caught,
                   abortedAt, tokenLog>>

\* executeVaultTool settles: success or error is published and the tool message
\* appended; the tool loop goes to the next call.
ToolReturn ==
    /\ pc = "dispatch"
    /\ LET toolCall == streamResult.toolCalls[tcIdx]
           args == ParseArguments(toolCall.function.arguments).value
           out == executeVaultTool(vault, toolCall.function.name, args)
       IN  /\ vault' = out.vault
           /\ IF ~out.raised
              THEN /\ toolCallLog' = Append(toolCallLog,
                           ToolCallResult(toolCall, args, "success", out.text, <<>>))
                   /\ newMessages' = Append(newMessages, ToolMsg(out.text, toolCall.id))
              ELSE /\ toolCallLog' = Append(toolCallLog,
                           ToolCallResult(toolCall, args, "error", <<>>, out.text))
                   /\ newMessages' = Append(newMessages,
                           ToolMsg(ErrorText(out.text), toolCall.id))
    /\ tcIdx' = tcIdx + 1
    /\ pc' = "tools"
    /\ UNCHANGED <<iteration, maxIterations, aborted, history, systemPrompt, view, stream, enableTools, streamResult, authState, now,
                   pool, published, errorLog, responses, requests, sent, sentTools, dispatchLog, caught,
                   abortedAt, tokenLog>>

\* ToolsDone without the onMessage after the tool loop.
ToolsDoneUnpublished ==
    /\ pc = "tools"
    /\ ToolLoopOver(tcIdx, streamResult.toolCalls, aborted)
    /\ published' = published
    /\ IF streamResult.finishReason \notin ContinuationSet
       THEN /\ pc' = "done"
            /\ UNCHANGED iteration
       ELSE /\ pc' = "loop"
            /\ iteration' = NextIteration(iteration)
    /\ UNCHANGED <<maxIterations, aborted, history, systemPrompt, view, stream, enableTools, newMessages, streamResult, tcIdx,
                   authState, now, vault, pool, toolCallLog, errorLog, responses, requests, sent, sentTools,
                   dispatchLog, caught, abortedAt, tokenLog>>

\* The tool loop is over (every call processed, or the signal seen): the list is
\* published, and the finish reason decides whether the loop goes on.
ToolsDone ==
    /\ pc = "tools"
    /\ ToolLoopOver(tcIdx, streamResult.toolCalls, aborted)
    /\ published' = newMessages
    /\ IF streamResult.finishReason \notin ContinuationSet
       THEN /\ pc' = "done"
            /\ UNCHANGED iteration
       ELSE /\ pc' = "loop"
            /\ iteration' = NextIteration(iteration)
    /\ UNCHANGED <<maxIterations, aborted, history, systemPrompt, view, stream, enableTools, newMessages, streamResult, tcIdx,
                   authState, now, vault, pool, toolCallLog, errorLog, responses, requests, sent, sentTools,
                   dispatchLog, caught, abortedAt, tokenLog>>

\* The caller's AbortController aborts (handleStop), at any moment of the run.
Abort ==
    /\ pc # "done"
    /\ ~aborted
    /\ aborted' = TRUE
    /\ abortedAt' = [pc |-> pc, iteration |-> iteration, tcIdx |-> tcIdx]
    /\ UNCHANGED <<pc, iteration, maxIterations, history, systemPrompt, view, stream, enableTools, newMessages, streamResult, tcIdx,
                   authState, now, vault, pool, published, toolCallLog, errorLog, responses,
                   requests, sent, sentTools, dispatchLog, caught, tokenLog>>

\* A second passes while the run waits for the network or the vault.
Tick ==
    /\ pc \in {"fetchToken", "request", "dispatch"}
    /\ now + MsPerSec <= MaxTime * MsPerSec
    /\ now' = now + MsPerSec
    /\ UNCHANGED <<pc, iteration, maxIterations, aborted, history, systemPrompt, view, stream, enableTools, newMessages, streamResult,
                   tcIdx, authState, vault, pool, published, toolCallLog, errorLog, responses,
                   requests, sent, sentTools, dispatchLog, caught, abortedAt, tokenLog>>

-----------------------------------------------------------------------------
(* The chat view: handleSend, handleStop, handleNewChat.                     *)
(* view.runs holds one record per runChatEngine invocation: whether it has   *)
(* returned, whether its abort signal is set, and the history it was given.  *)
(* A message is written as the number of the run that produced it.           *)

\* abortRef.current = null
NoController == 0

InitialView ==
    [isProcessing |-> FALSE, abortRef |-> NoController, conversationHistory |-> <<>>,
     runs |-> <<>>]

\* The invocations of runChatEngine started and not yet returned.
InFlight == {r \in 1..Len(view.runs) : ~view.runs[r].returned}

\* handleSend up to its await: nothing when a run is being processed, else
\* isProcessing is set, a new AbortController stored and runChatEngine called with
\* the conversation history.
handleSend ==
    /\ ~view.isProcessing
    /\ Len(view.runs) < MaxRuns
    /\ view' = [view EXCEPT
                   !.isProcessing = TRUE,
                   !.abortRef = Len(view.runs) + 1,
                   !.runs = Append(@, [returned |-> FALSE, aborted |-> FALSE,
                                       history |-> view.conversationHistory])]

\* runChatEngine returns to handleSend: the new messages are appended to the
\* conversation history, isProcessing is cleared and abortRef set to null.
handleSendResume ==
    \E r \in InFlight :
        view' = [view EXCEPT
                   !.runs[r].returned = TRUE,
                   !.conversationHistory = Append(@, r),
                   !.isProcessing = FALSE,
                   !.abortRef = NoController]

\* handleStop (the Stop button is shown while isProcessing): the stored
\* controller, if any, aborts; isProcessing is cleared and abortRef set to null.
handleStop ==
    /\ view.isProcessing
    /\ view' = [view EXCEPT
                   !.runs = IF view.abortRef = NoController THEN @
                            ELSE [@ EXCEPT ![view.abortRef].aborted = TRUE],
                   !.isProcessing = FALSE,
                   !.abortRef = NoController]

\* handleNewChat: the conversation history is emptied.
handleNewChat == view' = [view EXCEPT !.conversationHistory = <<>>]

-----------------------------------------------------------------------------
(* Initial states: the run right after runChatEngine has built newMessages   *)
(* and called onMessage with it.                                            *)

UserText == <<"hello">>

InitialVault == [p \in {"a.md"} |-> <<"alpha", "beta">>]

\* A token that outlives the run.
ValidAuth == Auth("tokA", MaxTime + 1, "pat")

\* The authentication states a run may find: signed out, signed in without a
\* token, with an expired or soon expiring token, and with a token but no pat.
AuthStates ==
    { Auth(Null, 0, Null), Auth(Null, 0, "pat"), Auth("tokA", 1, "pat"),
      Auth("tokA", 1, Null) }

\* The histories a run may be given, each the messages earlier runs returned: a
\* plain exchange; a round with a tool call and its reply; a round whose tool call
\* came without an id.
Histories ==
    { <<UserMsg(<<"earlier">>), AssistantMsg(<<"reply">>, <<>>)>>,
      <<UserMsg(<<"earlier">>),
        AssistantMsg(<<>>, <<ToolCall("h1", "vault_read_file", ArgsReadA)>>),
        ToolMsg(<<"alpha", "beta">>, "h1"),
        AssistantMsg(<<"read it">>, <<>>)>>,
      <<UserMsg(<<"earlier">>),
        AssistantMsg(<<"writing">>, <<ToolCall("", "vault_write_file", ArgsWriteB)>>),
        ToolMsg(<<"File created: ", "b.md">>, "")>> }

\* The custom system prompts: the default (empty) and a set one.
SystemPrompts == {<<>>, <<"Answer briefly.">>}

\* The runs explored: every pool and iteration cap with a valid token and the
\* clock at its end; every authentication state and clock with one pool; every
\* history and system prompt with one pool; tools disabled with one pool.
RunConfigs ==
    [pool : Pools, auth : {ValidAuth}, now : {MaxTime * MsPerSec},
     maxIterations : 0..MaxIter, history : {<<>>}, systemPrompt : {<<>>},
     enableTools : {TRUE}]
    \cup
    [pool : {[calls |-> {ToolCall("c1", "vault_read_file", ArgsReadA)},
              outcomes |-> ContinuingOutcomes]},
     auth : AuthStates,
     now : {0, MsPerSec}, maxIterations : {MaxIter},
     history : {<<>>}, systemPrompt : {<<>>}, enableTools : {TRUE}]
    \cup
    [pool : {[calls |-> {ToolCall("c1", "vault_read_file", ArgsReadA)},
              outcomes |-> CurrentOutcomes]},
     auth : {ValidAuth}, now : {MaxTime * MsPerSec}, maxIterations : {MaxIter},
     history : Histories, systemPrompt : SystemPrompts, enableTools : {TRUE}]
    \cup
    [pool : {[calls |-> {ToolCall("c1", "vault_read_file", ArgsReadA)},
              outcomes |-> CurrentOutcomes]},
     auth : {ValidAuth}, now : {MaxTime * MsPerSec}, maxIterations : {MaxIter},
     history : {<<>>}, systemPrompt : {<<>>}, enableTools : {FALSE}]

Init ==
    /\ \E c \in RunConfigs :
         /\ pool = c.pool
         /\ authState = c.auth
         /\ now = c.now
         /\ maxIterations = c.maxIterations
         /\ history = c.history
         /\ systemPrompt = c.systemPrompt
         /\ enableTools = c.enableTools
    /\ pc = "loop"
    /\ iteration = 0
    /\ aborted = FALSE
    /\ newMessages = <<UserMsg(UserText)>>
    /\ published = newMessages
    /\ streamResult = [content |-> <<>>, toolCalls |-> <<>>, finishReason |-> "stop"]
    /\ tcIdx = 1
    /\ vault = InitialVault
    /\ toolCallLog = <<>>
    /\ errorLog = <<>>
    /\ responses = <<>>
    /\ requests = 0
    /\ dispatchLog = <<>>
    /\ caught = <<>>
    /\ abortedAt = [pc |-> "never", iteration |-> 0, tcIdx |-> 0]
    /\ sent = <<>>
    /\ sentTools = <<>>
    /\ tokenLog = <<>>
    /\ view = InitialView
    /\ stream = IdleStream

Next ==
    \/ LoopTop
    \/ FetchTokenReturn
    \/ FetchTokenFail
    \/ ReceiveResponse
    \/ RequestFail
    \/ ToolStep
    \/ ToolReturn
    \/ ToolsDone
    \/ Abort
    \/ Tick

Spec == Init /\ [][Next]_vars

\* The steps of the run itself: the synchronous stretches of runChatEngine, which
\* the event loop runs to their next await, and the settling of what it awaits.
Progress ==
    \/ LoopTop
    \/ FetchTokenReturn
    \/ FetchTokenFail
    \/ ReceiveResponse
    \/ RequestFail
    \/ ToolStep
    \/ ToolReturn
    \/ ToolsDone

\* The run when every refresh, completion request and dispatch it awaits settles,
\* one way or the other, and the event loop keeps running the code in between.
\* The caller's abort and the clock are under no obligation.
FairSpec == Spec /\ WF_vars(Progress)

\* The chat view on its own, the engine variables held at a run that has returned.
engineVars ==
    <<pc, iteration, maxIterations, aborted, history, newMessages, streamResult, tcIdx,
      authState, now, vault, pool, published, toolCallLog, errorLog, responses, requests,
      dispatchLog, caught, abortedAt, systemPrompt, sent, enableTools, sentTools, tokenLog>>

\* The engine variables of a run that is not under way, but for its system
\* prompt, history and new messages.
EngineIdle ==
    /\ pc = "done"
    /\ iteration = 0
    /\ maxIterations = 0
    /\ aborted = FALSE
    /\ published = <<UserMsg(UserText)>>
    /\ streamResult = [content |-> <<>>, toolCalls |-> <<>>, finishReason |-> "stop"]
    /\ tcIdx = 1
    /\ authState = ValidAuth
    /\ now = 0
    /\ vault = InitialVault
    /\ pool = [calls |-> {}, outcomes |-> {}]
    /\ toolCallLog = <<>>
    /\ errorLog = <<>>
    /\ responses = <<>>
    /\ requests = 0
    /\ dispatchLog = <<>>
    /\ caught = <<>>
    /\ abortedAt = [pc |-> "never", iteration |-> 0, tcIdx |-> 0]
    /\ sent = <<>>
    /\ enableTools = TRUE
    /\ sentTools = <<>>
    /\ tokenLog = <<>>

\* The engine variables of a run that is not under way.
EngineAtRest ==
    /\ EngineIdle
    /\ history = <<>>
    /\ systemPrompt = <<>>
    /\ newMessages = <<UserMsg(UserText)>>

ViewInit ==
    /\ EngineAtRest
    /\ view = InitialView
    /\ stream = IdleStream

Send == handleSend /\ UNCHANGED <<engineVars, stream>>
Resume == handleSendResume /\ UNCHANGED <<engineVars, stream>>
Stop == handleStop /\ UNCHANGED <<engineVars, stream>>
NewChat == handleNewChat /\ UNCHANGED <<engineVars, stream>>

ViewNext ==
    \/ Send
    \/ Resume
    \/ Stop
    \/ NewChat

ViewSpec == ViewInit /\ [][ViewNext]_vars

\* The transport reading one response, for every sequence of fragments.
StreamInit ==
    /\ EngineAtRest
    /\ view = InitialView
    /\ \E fs \in FragmentSeqs :
         stream = [arrived |-> fs, pending |-> fs, acc |-> <<>>, keys |-> <<>>,
                   toolCalls |-> <<>>, finished |-> FALSE]

ReadFragment == AccumulateFragment /\ UNCHANGED <<engineVars, view>>
EndOfStream == FinalizeStream /\ UNCHANGED <<engineVars, view>>

StreamNext ==
    \/ ReadFragment
    \/ EndOfStream

StreamSpec == StreamInit /\ [][StreamNext]_vars

\* The new-message lists buildApiMessages may find: the user message alone, then
\* with a plain reply, with a round of one tool call and its reply, with that
\* round and a closing reply, and with a round whose tool call came without an id.
NewMessageLists ==
    { <<UserMsg(UserText)>>,
      <<UserMsg(UserText), AssistantMsg(<<"reply">>, <<>>)>>,
      <<UserMsg(UserText),
        AssistantMsg(<<>>, <<ToolCall("c1", "vault_read_file", ArgsReadA)>>),
        ToolMsg(<<"alpha", "beta">>, "c1")>>,
      <<UserMsg(UserText),
        AssistantMsg(<<>>, <<ToolCall("c1", "vault_read_file", ArgsReadA)>>),
        ToolMsg(<<"alpha", "beta">>, "c1"),
        AssistantMsg(<<"read it">>, <<>>)>>,
      <<UserMsg(UserText),
        AssistantMsg(<<"writing">>, <<ToolCall("", "vault_write_file", ArgsWriteB)>>),
        ToolMsg(<<"File created: ", "b.md">>, "")>> }

\* buildApiMessages on its own, called again and again on every system prompt,
\* history and new-message list.
AssembleInit ==
    /\ EngineIdle
    /\ view = InitialView
    /\ stream = IdleStream
    /\ systemPrompt \in SystemPrompts
    /\ history \in Histories \cup {<<>>}
    /\ newMessages \in NewMessageLists

Assembling ==
    /\ Assemble
    /\ UNCHANGED <<pc, iteration, maxIterations, aborted, streamResult, tcIdx, authState,
                   now, vault, pool, published, toolCallLog, errorLog, responses, requests,
                   dispatchLog, caught, abortedAt, enableTools, sentTools, tokenLog, view,
                   stream>>

AssembleNext == Assembling

AssembleSpec == AssembleInit /\ [][AssembleNext]_vars

-----------------------------------------------------------------------------
(* What a run shows to its caller *)

Done == pc = "done"

\* The list runChatEngine returns (the run has returned when Done).
ReturnedList == newMessages

\* The outcomes published with a final status, and the tool messages, in order.
Terminal == SelectSeq(toolCallLog, LAMBDA o : o.status # "running")
ToolMsgs == SelectSeq(newMessages, LAMBDA m : m.role = "tool")

\* The run met no cancellation and no credential or transport failure.
Undisturbed == ~aborted /\ caught = <<>>

\* The messages the rounds rs must have left, tool messages without their content:
\* per round the assistant message, then one tool message per request, in order.
RECURSIVE RoundsOf(_)
RoundsOf(rs) ==
    IF rs = <<>> THEN <<>>
    ELSE LET r == Head(rs)
         IN  <<[role |-> "assistant", content |-> r.content, toolCalls |-> r.toolCalls,
                toolCallId |-> NoId]>>
             \o [i \in 1..Len(r.toolCalls) |->
                    [role |-> "tool", content |-> <<>>, toolCalls |-> <<>>,
                     toolCallId |-> r.toolCalls[i].id]]
             \o RoundsOf(Tail(rs))

Skeleton(ms) ==
    [i \in 1..Len(ms) |-> IF ms[i].role = "tool" THEN [ms[i] EXCEPT !.content = <<>>] ELSE ms[i]]

RECURSIVE CallsIn(_)
CallsIn(rs) == IF rs = <<>> THEN 0 ELSE Len(Head(rs).toolCalls) + CallsIn(Tail(rs))

IsErrorAssistant(m) ==
    m.role = "assistant" /\ Len(m.content) > 0 /\ m.content[1] = "Error: "

-----------------------------------------------------------------------------
(* Claims *)

\* C1: a run without cancellation and without credential or transport failure
\* returns the user message, then per round, in order, the assistant message
\* followed by exactly one tool message per tool-call request, in request order,
\* each with the correlation id of its request, and with the dispatch result as
\* its content when the dispatch succeeded.
C1_ReturnedListShape ==
    (Done /\ Undisturbed) =>
        /\ Skeleton(ReturnedList)
             = <<[role |-> "user", content |-> UserText, toolCalls |-> <<>>,
                  toolCallId |-> NoId]>> \o RoundsOf(responses)
        /\ Len(Terminal) = Len(ToolMsgs)
        /\ \A k \in 1..Len(ToolMsgs) :
             /\ Terminal[k].toolCallId = ToolMsgs[k].toolCallId
             /\ Terminal[k].status = "success" => ToolMsgs[k].content = Terminal[k].result

\* Two rounds, the first with two requests under different ids, one of which succeeded.
C1_Witness ==
    /\ Done /\ Undisturbed
    /\ Len(responses) = 2
    /\ Len(responses[1].toolCalls) = 2
    /\ responses[1].toolCalls[1].id # responses[1].toolCalls[2].id
    /\ \E k \in 1..Len(Terminal) : Terminal[k].status = "success"

\* C2: when every response asks for tools with finish reason tool_calls (and the
\* run meets no cancellation and no failure), the run makes exactly maxIterations
\* request/response rounds and stops; onError is not invoked and no "Error:"
\* assistant message is appended.
C2_IterationCap ==
    ( /\ Done /\ Undisturbed
      /\ \A k \in 1..Len(responses) :
            responses[k].finishReason = "tool_calls" /\ responses[k].toolCalls # <<>> )
    => /\ Len(responses) = maxIterations
       /\ requests = maxIterations
       /\ errorLog = <<>>
       /\ \A i \in 1..Len(ReturnedList) : ~IsErrorAssistant(ReturnedList[i])

\* The cap of MaxIter rounds reached with the model still asking for tools.
C2_Witness ==
    /\ Done /\ Undisturbed
    /\ maxIterations = MaxIter
    /\ Len(responses) = MaxIter
    /\ \A k \in 1..Len(responses) :
          responses[k].finishReason = "tool_calls" /\ responses[k].toolCalls # <<>>

\* C3: a response with an empty tool-call list ends the run after that round,
\* with no tool dispatch in it; when it is the first response the run makes exactly
\* one round, whatever maxIterations >= 1 and the finish reason are.
C3_NoToolCallsFinishes ==
    \A k \in 1..Len(responses) :
        responses[k].toolCalls = <<>> =>
            /\ Done
            /\ k = Len(responses)
            /\ requests = k
            /\ \A d \in 1..Len(dispatchLog) : dispatchLog[d].iteration # k - 1
            /\ k = 1 => (maxIterations >= 1 /\ dispatchLog = <<>> /\ Len(ReturnedList) = 2)

\* A first response without tool calls but with finish reason tool_calls, under
\* an iteration cap above one.
C3_Witness ==
    /\ Len(responses) = 1
    /\ responses[1].toolCalls = <<>>
    /\ responses[1].finishReason = "tool_calls"
    /\ maxIterations > 1
    /\ Done

\* C4: after a round with tool calls whose finish reason is outside
\* {tool_calls, function_call}, every tool call of the round is processed in order
\* and its tool message appended (cancellation apart), and no further completion
\* request is started; after a round with tool calls whose finish reason is
\* tool_calls or function_call, with the cap not reached (and no cancellation),
\* exactly one further round is started.
C4_FinishReasonDecides ==
    /\ \A k \in 1..Len(responses) :
         (responses[k].toolCalls # <<>> /\ responses[k].finishReason \notin {"tool_calls", "function_call"})
         => /\ k = Len(responses)
            /\ requests = k
            /\ (Done /\ ~aborted) =>
                  /\ Len(caught) = 0
                  /\ SubSeq(Skeleton(ReturnedList), Len(ReturnedList) - Len(responses[k].toolCalls), Len(ReturnedList))
                       = RoundsOf(<<responses[k]>>)
    /\ (/\ Done /\ ~aborted
        /\ responses # <<>>
        /\ responses[Len(responses)].toolCalls # <<>>
        /\ responses[Len(responses)].finishReason \in {"tool_calls", "function_call"}
        /\ Len(responses) < maxIterations)
       => (Len(caught) = 1 /\ requests \in {Len(responses), Len(responses) + 1})
    /\ requests \in {Len(responses), Len(responses) + 1}

\* A round with two tool calls and finish reason stop, all processed; the run is over.
C4_Witness ==
    /\ Done /\ Undisturbed
    /\ Len(responses) = 1
    /\ maxIterations > 1
    /\ responses[1].finishReason = "stop"
    /\ Len(responses[1].toolCalls) = 2
    /\ Len(ToolMsgs) = 2

IsPrefix(a, b) == Len(a) <= Len(b) /\ SubSeq(b, 1, Len(a)) = a

\* C5: once the cancellation signal is set, the run starts no further completion
\* request and no further tool dispatch, every message already appended stays in
\* the list the run returns, and onError is not invoked.
C5_AfterCancellation ==
    [][aborted =>
          /\ requests' = requests
          /\ dispatchLog' = dispatchLog
          /\ errorLog' = errorLog
          /\ IsPrefix(newMessages, newMessages')]_vars

\* A run cancelled while a tool was being dispatched, ended with that tool's message kept.
C5_Witness ==
    /\ Done /\ aborted
    /\ abortedAt.pc = "dispatch"
    /\ Len(streamResult.toolCalls) = 2
    /\ Len(ToolMsgs) = 1
    /\ Len(ReturnedList) = 3

\* C6: when the signal is set after round 1's assistant message (with tool calls)
\* was appended and before the first tool dispatch begins, the returned list is the
\* user message and that assistant message with no tool message, no tool is
\* dispatched and onError is never invoked.
C6_CancelBeforeFirstDispatch ==
    (abortedAt.pc = "tools" /\ abortedAt.iteration = 0 /\ abortedAt.tcIdx = 1) =>
        /\ Len(newMessages) = 2
        /\ newMessages[1].role = "user"
        /\ newMessages[2] = [role |-> "assistant", content |-> responses[1].content,
                             toolCalls |-> responses[1].toolCalls, toolCallId |-> NoId]
        /\ ToolMsgs = <<>>
        /\ dispatchLog = <<>>
        /\ toolCallLog = <<>>
        /\ errorLog = <<>>
        /\ requests = 1

\* The run of that scenario has returned, its round having asked to go on.
C6_Witness ==
    /\ Done
    /\ abortedAt.pc = "tools" /\ abortedAt.iteration = 0 /\ abortedAt.tcIdx = 1
    /\ responses[1].finishReason = "tool_calls"
    /\ Len(responses[1].toolCalls) = 2
    /\ maxIterations > 1

\* C7: a failure of credential acquisition or of the completion request, raised
\* while the cancellation signal is not set, ends the run with exactly one
\* assistant message "Error: <description>" appended, onError invoked exactly once
\* with the description, and the updated list published.
C7_FailureIsReported ==
    (Done /\ caught # <<>> /\ ~aborted) =>
        /\ errorLog = caught
        /\ Len(caught) = 1
        /\ ReturnedList[Len(ReturnedList)]
             = [role |-> "assistant", content |-> <<"Error: ">> \o caught[1],
                toolCalls |-> <<>>, toolCallId |-> NoId]
        /\ Cardinality({i \in 1..Len(ReturnedList) : IsErrorAssistant(ReturnedList[i])}) = 1
        /\ published = ReturnedList

\* C8: when the dispatch of a tool call raises, its outcome is published with
\* status error and the failure's description, a tool message "Error:
\* <description>" with the same correlation id is appended, the tool loop goes on
\* with the next call, and the run is neither ended nor reported through onError.
C8_DispatchFailureIsFolded ==
    /\ Len(Terminal) = Len(ToolMsgs)
    /\ \A k \in 1..Len(Terminal) :
         (Terminal[k].status = "error" /\ Terminal[k].error # <<"Failed to parse arguments">>)
         => ToolMsgs[k] = [role |-> "tool", content |-> <<"Error: ">> \o Terminal[k].error,
                           toolCalls |-> <<>>, toolCallId |-> Terminal[k].toolCallId]
    /\ \A d \in 1..Len(dispatchLog) :
         LET call == dispatchLog[d].toolCall
         IN  call.function.name \notin
                {"vault_read_file", "vault_write_file", "vault_edit_file", "vault_delete_file"}
             => \/ pc = "dispatch" /\ d = Len(dispatchLog)
                \/ \E k \in 1..Len(Terminal) :
                     /\ Terminal[k].toolCallId = call.id
                     /\ Terminal[k].status = "error"
                     /\ Terminal[k].error = <<"Unknown tool: ", call.function.name>>
    /\ Len(errorLog) <= Len(caught)
    /\ (Done /\ Undisturbed) => Len(Terminal) = CallsIn(responses)

\* A dispatch raised for the first call of a round, the second call was processed
\* after it, and a further round followed.
C8_Witness ==
    /\ Len(responses) = 2
    /\ Len(responses[1].toolCalls) = 2
    /\ Len(Terminal) >= 2
    /\ Terminal[1].status = "error"
    /\ Terminal[1].error = <<"Unknown tool: ", "vault_frobnicate">>
    /\ Terminal[2].status = "success"
    /\ errorLog = <<>>

\* The call being dispatched, its parsed arguments and what the registry does with it.
Dispatched == streamResult.toolCalls[tcIdx]
DispatchedArgs == ParseArguments(Dispatched.function.arguments).value
DispatchResult == executeVaultTool(vault, Dispatched.function.name, DispatchedArgs)

\* The step in which the dispatch settles.
DispatchSettles == pc = "dispatch" /\ pc' # "dispatch"

\* The call being dispatched is a vault_edit_file whose oldText is not in its file.
EditMisses ==
    /\ Dispatched.function.name = "vault_edit_file"
    /\ RequiredArgs("vault_edit_file") \subseteq DOMAIN DispatchedArgs
    /\ FileExists(vault, normalizePath(DispatchedArgs.path))
    /\ ~Includes(vault[normalizePath(DispatchedArgs.path)], DispatchedArgs.oldText)

\* C9: a vault_edit_file call whose oldText does not occur in the file gets an
\* outcome of status error and a tool message of the form "Error: <description>",
\* and the run goes on.
C9_EditMissIsErrorOutcome ==
    [][(DispatchSettles /\ EditMisses) =>
          /\ toolCallLog'[Len(toolCallLog')].status = "error"
          /\ newMessages'[Len(newMessages')].role = "tool"
          /\ newMessages'[Len(newMessages')].content[1] = "Error: "
          /\ pc' = "tools"]_vars

\* The call being dispatched names no declared tool, lacks a required argument,
\* or targets a file that does not exist.
UnknownTool == Dispatched.function.name \notin DeclaredTools
MissingArgument ==
    \E key \in RequiredArgs(Dispatched.function.name) : key \notin DOMAIN DispatchedArgs
MissingTarget ==
    /\ Dispatched.function.name \in {"vault_read_file", "vault_edit_file", "vault_delete_file"}
    /\ ~MissingArgument
    /\ ~FileExists(vault, normalizePath(DispatchedArgs.path))

\* C10: execute(name, args) raises when the operation name is unrecognized, when
\* a required argument is missing and when the target resource does not exist, so
\* that each of these cases yields an outcome of status error.
C10_DispatchRaises ==
    [][(DispatchSettles /\ (UnknownTool \/ MissingArgument \/ MissingTarget)) =>
          /\ DispatchResult.raised
          /\ toolCallLog'[Len(toolCallLog')].status = "error"]_vars

\* The tool loop stands at a call whose argument text JSON.parse rejects.
ParseFails ==
    /\ pc = "tools"
    /\ tcIdx <= Len(streamResult.toolCalls)
    /\ Dispatched.function.arguments # ""
    /\ ~JSONParse(Dispatched.function.arguments).ok

\* C11: when the argument text of a tool call does not parse, the call is not
\* dispatched, a tool message containing the literal argument text and carrying
\* the call's correlation id is appended, exactly one outcome is published for
\* it, with status error, the tool loop moves to the next call, and nothing is
\* thrown out of the iteration.
C11_ParseFailureIsFolded ==
    [][(ParseFails /\ ~aborted /\ ~aborted') =>
          /\ dispatchLog' = dispatchLog
          /\ Len(newMessages') = Len(newMessages) + 1
          /\ IsPrefix(newMessages, newMessages')
          /\ newMessages'[Len(newMessages')].role = "tool"
          /\ newMessages'[Len(newMessages')].toolCallId = Dispatched.id
          /\ Includes(newMessages'[Len(newMessages')].content,
                      <<Dispatched.function.arguments>>)
          /\ Len(toolCallLog') = Len(toolCallLog) + 1
          /\ IsPrefix(toolCallLog, toolCallLog')
          /\ toolCallLog'[Len(toolCallLog')].toolCallId = Dispatched.id
          /\ toolCallLog'[Len(toolCallLog')].status = "error"
          /\ tcIdx' = tcIdx + 1
          /\ pc' = "tools"
          /\ caught' = caught
          /\ errorLog' = errorLog]_vars

\* A round whose first call had the argument text "{bad json" and whose second
\* call was dispatched after it; the run returned without any failure caught.
C11_Witness ==
    /\ Done /\ Undisturbed
    /\ Len(responses) >= 1
    /\ Len(responses[1].toolCalls) = 2
    /\ responses[1].toolCalls[1].function.arguments = "{bad json"
    /\ Len(toolCallLog) >= 3
    /\ toolCallLog[1].status = "error"
    /\ toolCallLog[2].status = "running"
    /\ Len(dispatchLog) >= 1
    /\ dispatchLog[1].toolCall = responses[1].toolCalls[2]

\* The run stands at the top of its first iteration, not cancelled, with no pat
\* on file.
StartsWithoutPat ==
    /\ pc = "loop" /\ iteration = 0 /\ requests = 0
    /\ maxIterations >= 1
    /\ ~aborted
    /\ authState.pat = "<null>"

\* The cached access token is missing or has expired.
NoUsableToken ==
    \/ authState.accessToken.token = "<null>"
    \/ authState.accessToken.expiresAt = 0
    \/ now >= authState.accessToken.expiresAt * 1000

\* The run ended on the not-authenticated failure before any request.
EndedNotAuthenticated ==
    /\ pc' = "done"
    /\ errorLog' = <<<<"Not authenticated. Please sign in first.">>>>
    /\ newMessages' =
          <<[role |-> "user", content |-> UserText, toolCalls |-> <<>>, toolCallId |-> NoId],
            [role |-> "assistant",
             content |-> <<"Error: ", "Not authenticated. Please sign in first.">>,
             toolCalls |-> <<>>, toolCallId |-> NoId]>>
    /\ published' = newMessages'
    /\ requests' = 0

\* C12 (amended): a run started with no pat on file and with no usable cached
\* access token (none, or an expired one) is fatal: onError is invoked with the
\* not-authenticated description, the run ends with the user message followed by
\* exactly one assistant error message, and no completion request is sent.
C12_NoPatNoTokenIsFatal ==
    [][(StartsWithoutPat /\ NoUsableToken /\ ~aborted') => EndedNotAuthenticated]_vars

\* A run that found an expired token and no pat has ended that way.
C12_Witness ==
    /\ Done /\ ~aborted
    /\ authState.pat = "<null>"
    /\ authState.accessToken.token # "<null>"
    /\ now >= authState.accessToken.expiresAt * 1000
    /\ errorLog = <<<<"Not authenticated. Please sign in first.">>>>
    /\ Len(newMessages) = 2
    /\ requests = 0

\* C12 as stated: every run started with no pat on file is fatal in that way,
\* whatever the cached access token is.
C12_NoPatIsFatal ==
    [][(StartsWithoutPat /\ ~aborted') => EndedNotAuthenticated]_vars

\* C13: a credential or transport failure caught while the cancellation signal
\* is set ends the run silently: onError is not invoked, no "Error:" assistant
\* message is appended, and the list is the user message followed by the
\* messages of the rounds completed before the failing round began.
C13_FailureUnderSignalIsSilent ==
    (aborted /\ caught # <<>>) =>
        /\ Done
        /\ Len(caught) = 1
        /\ errorLog = <<>>
        /\ \A i \in 1..Len(ReturnedList) : ~IsErrorAssistant(ReturnedList[i])
        /\ Skeleton(ReturnedList)
             = <<[role |-> "user", content |-> UserText, toolCalls |-> <<>>,
                  toolCallId |-> NoId]>> \o RoundsOf(responses)

\* The request of the second round failed with a status-500 error after the
\* signal was set while it was outstanding.
C13_Witness ==
    /\ Done /\ aborted
    /\ abortedAt.pc = "request" /\ abortedAt.iteration = 1
    /\ caught = <<<<"Request failed, status 500">>>>
    /\ Len(responses) = 1
    /\ Len(ReturnedList) >= 3

\* The messages array of the request that is outstanding.
LastSent == sent[Len(sent)]

\* Its entries other than the system instructions.
ConversationEntries == SelectSeq(LastSent, LAMBDA e : e.role # "system")

\* C14: the assembled request holds exactly one entry for every message of the
\* history and every message appended so far in the run, in their order, so that
\* the request of round N+1 has an entry for the assistant message and for every
\* tool message of round N.
C14_AssemblyIsOneToOne ==
    pc = "request" =>
        LET msgs == history \o newMessages
        IN  /\ Len(ConversationEntries) = Len(msgs)
            /\ \A i \in 1..Len(msgs) :
                 /\ ConversationEntries[i].role = msgs[i].role
                 /\ ConversationEntries[i].tool_calls = msgs[i].toolCalls
                 /\ msgs[i].role = "tool" =>
                       /\ ConversationEntries[i].content = msgs[i].content
                       /\ ConversationEntries[i].tool_call_id = msgs[i].toolCallId

\* The number of system instructions the request of this run begins with.
SystemEntries == IF systemPrompt # <<>> THEN 2 ELSE 1

\* C15: the assembled request begins with the custom system instruction exactly
\* when it is non-empty, then has the built-in instruction, then the entries of
\* the history, then the entries of the run's new messages, and no system
\* instruction anywhere else.
C15_RequestLayout ==
    pc = "request" =>
        LET hist == ApiEntries(history)
            new == ApiEntries(newMessages)
        IN  /\ (systemPrompt # <<>>) <=>
                    (LastSent[1] = [role |-> "system", content |-> systemPrompt,
                                    tool_calls |-> <<>>, tool_call_id |-> NoId])
            /\ LastSent[SystemEntries]
                  = [role |-> "system", content |-> BuiltinInstruction,
                     tool_calls |-> <<>>, tool_call_id |-> NoId]
            /\ \A i \in (SystemEntries + 1)..Len(LastSent) : LastSent[i].role # "system"
            /\ Len(LastSent) = SystemEntries + Len(hist) + Len(new)
            /\ SubSeq(LastSent, SystemEntries + 1, SystemEntries + Len(hist)) = hist
            /\ SubSeq(LastSent, SystemEntries + Len(hist) + 1, Len(LastSent)) = new

\* The second request of a run with a custom system prompt and a history that
\* holds a tool round.
C15_Witness ==
    /\ pc = "request"
    /\ requests = 2
    /\ systemPrompt # <<>>
    /\ Len(history) = 4
    /\ Len(newMessages) = 3
    /\ Len(LastSent) = 2 + 4 + 3

\* The tool-call requests made by the assistant messages of ms before position
\* i, as <<position, index>> pairs, that carry the id.
RequestsFor(ms, i, id) ==
    { <<j, k>> \in (1..(i - 1)) \X (1..MaxCalls) :
        /\ ms[j].role = "assistant"
        /\ k <= Len(ms[j].toolCalls)
        /\ ms[j].toolCalls[k].id = id }

\* C16: in the history followed by the list of the run, every tool message
\* carries a correlation id that exactly one tool-call request of an earlier
\* assistant message carries, and no two tool messages carry the same id.
C16_CorrelationIdsAreUnique ==
    LET ms == history \o newMessages
    IN  /\ \A i \in 1..Len(ms) :
             ms[i].role = "tool" => Cardinality(RequestsFor(ms, i, ms[i].toolCallId)) = 1
        /\ \A i, j \in 1..Len(ms) :
             (ms[i].role = "tool" /\ ms[j].role = "tool" /\ i # j)
                => ms[i].toolCallId # ms[j].toolCallId

\* Completion requests sent and not yet answered or failed; tool dispatches
\* started (published as running) and not yet settled.
RequestsOutstanding == IF pc = "request" THEN requests - Len(responses) ELSE 0
Running == SelectSeq(toolCallLog, LAMBDA o : o.status = "running")
Settled ==
    SelectSeq(toolCallLog,
              LAMBDA o : o.status # "running" /\ o.error # <<"Failed to parse arguments">>)
DispatchesOutstanding == Len(Running) - Len(Settled)

\* The calls dispatched in the round of response r, in dispatch order.
DispatchedIn(r) ==
    LET ds == SelectSeq(dispatchLog, LAMBDA d : d.iteration = r - 1)
    IN  [i \in 1..Len(ds) |-> ds[i].toolCall]

\* The calls among the first n of a list whose argument text parses.
Parseable(calls, n) ==
    SelectSeq(SubSeq(calls, 1, n),
              LAMBDA c : c.function.arguments = "" \/ JSONParse(c.function.arguments).ok)

\* C17: a run never has two completion requests outstanding, never two tool
\* dispatches outstanding, never a dispatch and a request outstanding together;
\* the calls of a round are dispatched in list order, and each one is started only
\* after the one before it has settled.
C17_FullySequential ==
    /\ requests - Len(responses) \in {0, 1}
    /\ RequestsOutstanding \in {0, 1}
    /\ DispatchesOutstanding \in {0, 1}
    /\ RequestsOutstanding + DispatchesOutstanding <= 1
    /\ Len(dispatchLog) = Len(Running)
    /\ \A r \in 1..Len(responses) :
         \E n \in 0..Len(responses[r].toolCalls) :
            DispatchedIn(r) = Parseable(responses[r].toolCalls, n)
    /\ \A i \in 1..(Len(toolCallLog) - 1) :
         toolCallLog[i].status = "running" =>
            /\ toolCallLog[i + 1].status \in {"success", "error"}
            /\ toolCallLog[i + 1].toolCallId = toolCallLog[i].toolCallId
            /\ toolCallLog[i + 1].toolName = toolCallLog[i].toolName

\* A round of two different calls, both dispatched and settled, followed by a
\* second request.
C17_Witness ==
    /\ pc = "request" /\ requests = 2
    /\ Len(responses[1].toolCalls) = 2
    /\ responses[1].toolCalls[1] # responses[1].toolCalls[2]
    /\ Len(dispatchLog) = 2
    /\ Len(Settled) = 2

\* C18: the chat view serializes the runs of a conversation: whatever the
\* order of Send, Stop, New chat and run completions, at most one runChatEngine
\* invocation is in flight.
C18_AtMostOneRunInFlight == Cardinality(InFlight) <= 1

\* The index a fragment counts under, and the distinct indices of the response.
IndexOfFragment(f) == IF f.index = -1 THEN 0 ELSE f.index
ArrivedIndices == {IndexOfFragment(stream.arrived[i]) : i \in 1..Len(stream.arrived)}

\* C19: when the response is read, the transport has emitted exactly one tool
\* call per distinct fragment index, in ascending order of index, whatever the
\* order in which the fragments arrived.
C19_OneCallPerIndexAscending ==
    (stream.finished /\ stream.arrived # <<>>) =>
        /\ Len(stream.toolCalls) = Cardinality(ArrivedIndices)
        /\ Len(stream.keys) = Len(stream.toolCalls)
        /\ {stream.keys[i] : i \in 1..Len(stream.keys)} = ArrivedIndices
        /\ \A i, j \in 1..Len(stream.keys) : i < j => stream.keys[i] < stream.keys[j]

\* A response whose fragment of index 1 arrived before those of index 0.
C19_Witness ==
    /\ stream.finished
    /\ Len(stream.arrived) = 3
    /\ stream.arrived[1].index = 1
    /\ stream.arrived[2].index = 0
    /\ stream.keys = <<0, 1>>
    /\ stream.toolCalls[1].id = "c1"
    /\ stream.toolCalls[2].id = "c2"

\* The fragments of a sequence that count under index k, in arrival order.
FragmentsOf(fs, k) == SelectSeq(fs, LAMBDA f : IndexOfFragment(f) = k)

RECURSIVE ConcatArguments(_)
ConcatArguments(fs) ==
    IF fs = <<>> THEN <<>> ELSE Head(fs).arguments \o ConcatArguments(Tail(fs))

\* The last non-empty value of a field among fragments, "" when none supplies one.
LastSupplied(fs, field) ==
    LET at == {i \in 1..Len(fs) : fs[i][field] # ""}
    IN  IF at = {} THEN "" ELSE fs[CHOOSE i \in at : \A j \in at : j <= i][field]

\* The arrival orders of the same fragments.
Rearrangements(fs) ==
    { [i \in 1..Len(fs) |-> fs[p[i]]] :
        p \in {q \in [1..Len(fs) -> 1..Len(fs)] : \A i, j \in 1..Len(fs) : i # j => q[i] # q[j]} }

\* Two arrival orders keep, under every index, the argument-bearing fragments
\* in the same relative order.
SameArgumentOrder(fs, gs) ==
    \A k \in {IndexOfFragment(fs[i]) : i \in 1..Len(fs)} :
        SelectSeq(FragmentsOf(fs, k), LAMBDA f : f.arguments # <<>>)
          = SelectSeq(FragmentsOf(gs, k), LAMBDA f : f.arguments # <<>>)

\* Under every index at most one fragment supplies an id and at most one a name.
SinglySupplied(fs) ==
    \A k \in {IndexOfFragment(fs[i]) : i \in 1..Len(fs)} : \A field \in {"id", "name"} :
        Cardinality({i \in 1..Len(fs) : IndexOfFragment(fs[i]) = k /\ fs[i][field] # ""}) <= 1

\* What the transport makes of a whole fragment sequence.
RECURSIVE AccumulateAll(_, _)
AccumulateAll(acc, fs) ==
    IF fs = <<>> THEN acc ELSE AccumulateAll(Accumulate(acc, Head(fs)), Tail(fs))

\* C20: the tool call merged from the fragments of one index has as argument
\* text the concatenation of their argument texts in arrival order, and as id and
\* name the last non-empty one supplied; and every arrival order of the same
\* fragments that keeps the argument-bearing fragments in their relative order
\* gives the same tool calls when id and name are each supplied by one fragment.
C20_MergeByIndex ==
    stream.finished =>
        /\ \A i \in 1..Len(stream.toolCalls) :
             LET fs == FragmentsOf(stream.arrived, stream.keys[i])
             IN  /\ stream.toolCalls[i].function.arguments = ConcatArguments(fs)
                 /\ stream.toolCalls[i].id = LastSupplied(fs, "id")
                 /\ stream.toolCalls[i].function.name = LastSupplied(fs, "name")
        /\ SinglySupplied(stream.arrived) =>
              \A gs \in Rearrangements(stream.arrived) :
                  SameArgumentOrder(stream.arrived, gs)
                     => FinalToolCalls(AccumulateAll(<<>>, gs)) = stream.toolCalls

\* The id and name of call 0 arrived between its two argument fragments.
C20_Witness ==
    /\ stream.finished
    /\ Len(stream.arrived) = 3
    /\ stream.arrived[1].arguments = <<"a">>
    /\ stream.arrived[2].id = "c1"
    /\ stream.arrived[3].arguments = <<"b">>
    /\ stream.toolCalls
          = <<[id |-> "c1", type |-> "function",
               function |-> [name |-> "vault_read_file", arguments |-> <<"a", "b">>]]>>

-----------------------------------------------------------------------------
(* ensureValidToken, call by call *)

\* The events of one kind in the latest call.
TokenEvents(kind) == SelectSeq(tokenLog, LAMBDA e : e.event = kind)

\* C21: a call of ensureValidToken that finds a token, a non-zero expiry and a
\* clock before that expiry returns the cached token and neither refreshes nor
\* calls onUpdate; any other call without a pat throws the not-authenticated
\* failure and neither refreshes nor calls onUpdate; any other call with a pat
\* starts one refresh with that pat and, once the refresh has answered, has
\* called onUpdate once with the answered token and expiry and returned the
\* answered token (a refresh that fails is thrown on, with no onUpdate).
C21_EnsureValidToken ==
    tokenLog # <<>> =>
        LET c == tokenLog[1]
            cached == c.auth.accessToken
            usable == /\ cached.token # "<null>"
                      /\ cached.expiresAt # 0
                      /\ c.now < cached.expiresAt * 1000
        IN  /\ c.event = "call"
            /\ usable => tokenLog = <<c, [event |-> "return", token |-> cached.token]>>
            /\ (~usable /\ c.auth.pat = "<null>")
                  => tokenLog = <<c, [event |-> "throw",
                                      message |-> <<"Not authenticated. Please sign in first.">>]>>
            /\ (~usable /\ c.auth.pat # "<null>")
                  => /\ Len(tokenLog) \in 2..4
                     /\ tokenLog[2] = [event |-> "fetchToken", pat |-> c.auth.pat]
                     /\ Len(TokenEvents("fetchToken")) = 1
                     /\ Len(tokenLog) = 3 => /\ tokenLog[3].event = "throw"
                                             /\ TokenEvents("onUpdate") = <<>>
                     /\ Len(tokenLog) = 4
                           => /\ tokenLog[3].event = "onUpdate"
                              /\ tokenLog[3].update.accessToken.token = "tokB"
                              /\ authState.accessToken = tokenLog[3].update.accessToken
                              /\ tokenLog[4] = [event |-> "return", token |-> "tokB"]
                              /\ Len(TokenEvents("onUpdate")) = 1
            /\ (pc = "request" /\ ~aborted) => tokenLog[Len(tokenLog)].event = "return"

\* A call found the cached token expired, refreshed with the pat and returned the
\* fresh token; the round after it found the fresh token still valid.
C21_Witness ==
    /\ Len(tokenLog) = 4
    /\ tokenLog[1].auth.accessToken.token = "tokA"
    /\ tokenLog[1].now >= tokenLog[1].auth.accessToken.expiresAt * 1000
    /\ tokenLog[4].token = "tokB"
    /\ pc = "request"

\* A later call returned the token an earlier refresh had stored.
C21_WitnessCached ==
    /\ Len(tokenLog) = 2
    /\ tokenLog[1].auth.accessToken.token = "tokB"
    /\ tokenLog[2] = [event |-> "return", token |-> "tokB"]

-----------------------------------------------------------------------------
(* buildApiMessages, called twice *)

-----------------------------------------------------------------------------
(* onToolCall, request by request *)

\* The tool-call requests of the responses so far, round after round, each as
\* the id and name an outcome carries.
RECURSIVE RequestedCalls(_)
RequestedCalls(rs) ==
    IF rs = <<>> THEN <<>>
    ELSE [i \in 1..Len(Head(rs).toolCalls) |->
             [toolCallId |-> Head(rs).toolCalls[i].id,
              toolName |-> Head(rs).toolCalls[i].function.name]]
         \o RequestedCalls(Tail(rs))

\* The outcomes of a log split request by request: a running outcome opens a
\* request and takes the outcome after it along, any other outcome stands alone.
RECURSIVE Lifecycles(_)
Lifecycles(log) ==
    IF log = <<>> THEN <<>>
    ELSE IF log[1].status = "running" /\ Len(log) > 1
         THEN <<SubSeq(log, 1, 2)>> \o Lifecycles(SubSeq(log, 3, Len(log)))
         ELSE <<SubSeq(log, 1, 1)>> \o Lifecycles(Tail(log))

StatusesOf(lifecycle) == [i \in 1..Len(lifecycle) |-> lifecycle[i].status]

\* C23: the outcomes handed to onToolCall, split request by request, belong to
\* the tool-call requests of the responses in their order, none skipped and
\* none served twice; the statuses of each request are running then success,
\* running then error, or error alone, and running alone only while its
\* dispatch is outstanding; no outcome is pending or rejected; a round that ends
\* without cancellation has served every request.
C23_OutcomesInRequestOrder ==
    LET ls == Lifecycles(toolCallLog)
        asked == RequestedCalls(responses)
    IN  /\ Len(ls) <= Len(asked)
        /\ \A i \in 1..Len(ls) :
             /\ \A j \in 1..Len(ls[i]) :
                  /\ ls[i][j].toolCallId = asked[i].toolCallId
                  /\ ls[i][j].toolName = asked[i].toolName
             /\ StatusesOf(ls[i]) \in {<<"running", "success">>, <<"running", "error">>,
                                        <<"error">>, <<"running">>}
             /\ StatusesOf(ls[i]) = <<"running">> => i = Len(ls) /\ pc = "dispatch"
        /\ \A i \in 1..Len(toolCallLog) : toolCallLog[i].status \notin {"pending", "rejected"}
        /\ (pc = "loop" /\ ~aborted) => Len(ls) = Len(asked)

\* A round of two requests: the first failed to parse, the second ran and
\* succeeded.
C23_Witness ==
    /\ Len(responses) = 1
    /\ Len(responses[1].toolCalls) = 2
    /\ Len(toolCallLog) = 3
    /\ StatusesOf(toolCallLog) = <<"error", "running", "success">>
    /\ toolCallLog[1].toolCallId # toolCallLog[2].toolCallId

-----------------------------------------------------------------------------
(* A tool name the registry does not know *)

\* The call whose dispatch is outstanding names none of the declared tools.
UndeclaredDispatched ==
    /\ pc = "dispatch"
    /\ streamResult.toolCalls[tcIdx].function.name \notin
          {"vault_list_files", "vault_read_file", "vault_write_file", "vault_edit_file",
           "vault_search", "vault_delete_file", "vault_rename_file", "vault_create_folder",
           "vault_get_active_file", "vault_append_to_file", "vault_insert_at_line"}

\* C24: a call to an undeclared tool is announced as running and dispatched;
\* when the dispatch settles its outcome is published with status error and the
\* failure "Unknown tool: <name>", the tool message "Error: Unknown tool: <name>"
\* with the call's id is appended, the vault is as it was, nothing is reported
\* through onError, and the tool loop stands at the next call of the round with
\* the run still under way.
C24_UnknownToolIsRecoverable ==
    [][UndeclaredDispatched =>
         LET call == streamResult.toolCalls[tcIdx]
             failure == <<"Unknown tool: ", call.function.name>>
             announced == toolCallLog[Len(toolCallLog)]
         IN  /\ announced.status = "running"
             /\ announced.toolCallId = call.id
             /\ announced.toolName = call.function.name
             /\ pc' # pc =>
                  /\ toolCallLog' = Append(toolCallLog,
                        [announced EXCEPT !.status = "error", !.error = failure])
                  /\ newMessages' = Append(newMessages,
                        [role |-> "tool", content |-> <<"Error: ">> \o failure,
                         toolCalls |-> <<>>, toolCallId |-> call.id])
                  /\ vault' = vault
                  /\ errorLog' = errorLog
                  /\ caught' = caught
                  /\ pc' = "tools"
                  /\ tcIdx' = tcIdx + 1
                  /\ streamResult' = streamResult]_vars

\* An undeclared tool was the first call of a round; the second call of the
\* round was dispatched after it and succeeded, and a further request followed.
C24_Witness ==
    /\ Len(responses) = 1
    /\ Len(toolCallLog) = 4
    /\ toolCallLog[2].status = "error"
    /\ toolCallLog[2].error = <<"Unknown tool: ", toolCallLog[2].toolName>>
    /\ toolCallLog[4].status = "success"
    /\ Len(ToolMsgs) = 2
    /\ requests = 2

-----------------------------------------------------------------------------
(* The assistant message of a round *)

Assistants(ms) == SelectSeq(ms, LAMBDA m : m.role = "assistant")

\* C25: the assistant messages of the new-message list are, in order, one per
\* response received, each with the whole content and the whole tool-call list
\* of its response, and after them at most the one error message of a failed run;
\* while a completion request is outstanding neither the list nor what was
\* published holds an assistant message for its round; and from the moment a
\* response is received, so before any call of its round is announced or
\* dispatched, the published list holds its assistant message.
C25_OneAssistantPerResponse ==
    LET as == Assistants(newMessages)
        n == Len(responses)
    IN  /\ Len(as) \in {n, n + 1}
        /\ \A k \in 1..n :
             as[k] = [role |-> "assistant", content |-> responses[k].content,
                      toolCalls |-> responses[k].toolCalls, toolCallId |-> "<undefined>"]
        /\ Len(as) = n + 1 =>
             /\ pc = "done"
             /\ errorLog # <<>>
             /\ newMessages[Len(newMessages)] = as[n + 1]
             /\ as[n + 1].toolCalls = <<>>
        /\ pc \in {"request", "fetchToken"} =>
             /\ Len(as) = n
             /\ Len(Assistants(published)) = n
        /\ pc = "request" => requests = n + 1
        /\ pc # "request" => requests \in {n, n + 1}
        /\ Assistants(published) = as
        /\ \A d \in 1..Len(dispatchLog) :
             Len(Assistants(published)) > dispatchLog[d].iteration

\* The second request of a run is outstanding: the list holds the assistant
\* message of the first round with its tool call, and none for the second.
C25_Witness ==
    /\ pc = "request"
    /\ requests = 2
    /\ Len(responses) = 1
    /\ Len(Assistants(newMessages)) = 1
    /\ Assistants(newMessages)[1].toolCalls # <<>>
    /\ Assistants(published) = Assistants(newMessages)

\* A call of the first round is being dispatched, and the published list already
\* holds the assistant message that asked for it.
C25_WitnessDispatch ==
    /\ pc = "dispatch"
    /\ Len(responses) = 1
    /\ Len(published) = 2
    /\ published[2].toolCalls = responses[1].toolCalls

-----------------------------------------------------------------------------
(* Tool messages and the assistant message they answer *)

\* The index after the tool messages that follow message i.
RECURSIVE EndOfReplies(_, _)
EndOfReplies(ms, i) ==
    IF i + 1 <= Len(ms) /\ ms[i + 1].role = "tool" THEN EndOfReplies(ms, i + 1) ELSE i + 1

\* The correlation ids of the tool messages that follow message i, and the ids
\* of the tool-call requests of message i.
ReplyIds(ms, i) ==
    [k \in 1..(EndOfReplies(ms, i) - i - 1) |-> ms[i + k].toolCallId]
AskedIds(m) == [k \in 1..Len(m.toolCalls) |-> m.toolCalls[k].id]

\* C26: in the new-message list every tool message stands behind an assistant
\* message or another tool message; the tool messages behind an assistant message
\* carry, in order, the ids of the first of its tool-call requests; they answer
\* all of its requests when another assistant message follows them, and when the
\* round is over and the run was not cancelled.
C26_RepliesArePrefix ==
    /\ \A i \in 1..Len(newMessages) :
         newMessages[i].role = "tool" =>
            i > 1 /\ newMessages[i - 1].role \in {"assistant", "tool"}
    /\ \A i \in 1..Len(newMessages) :
         newMessages[i].role = "assistant" =>
            LET replies == ReplyIds(newMessages, i)
                asked == AskedIds(newMessages[i])
            IN  /\ Len(replies) <= Len(asked)
                /\ replies = SubSeq(asked, 1, Len(replies))
                /\ EndOfReplies(newMessages, i) <= Len(newMessages) => replies = asked
                /\ (pc \notin {"tools", "dispatch"} /\ ~aborted) => replies = asked
                /\ (pc = "dispatch" /\ EndOfReplies(newMessages, i) > Len(newMessages))
                      => Len(replies) = tcIdx - 1 /\ Len(replies) < Len(asked)

\* A run cancelled in the tool loop of a round of two requests returned the
\* reply to the first request only.
C26_Witness ==
    /\ pc = "done"
    /\ aborted
    /\ Len(newMessages) = 3
    /\ Len(newMessages[2].toolCalls) = 2
    /\ newMessages[3].role = "tool"
    /\ newMessages[3].toolCallId = newMessages[2].toolCalls[1].id

-----------------------------------------------------------------------------
(* The iteration cap *)

\* C27: a run never has started more completion requests than maxIterations,
\* never more than one per iteration begun; its new-message list never holds
\* more assistant messages than maxIterations, responses and error message
\* together; and with maxIterations 0 it starts no request, refreshes no token
\* and returns the user message alone.
C27_AtMostMaxIterations ==
    /\ requests <= maxIterations
    /\ requests <= iteration + 1
    /\ iteration <= maxIterations
    /\ Len(SelectSeq(newMessages, LAMBDA m : m.role = "assistant")) <= maxIterations
    /\ Len(SelectSeq(newMessages, LAMBDA m : m.role = "assistant")) <= iteration + 1
    /\ maxIterations = 0 =>
         /\ requests = 0
         /\ tokenLog = <<>>
         /\ newMessages = <<[role |-> "user", content |-> <<"hello">>, toolCalls |-> <<>>,
                             toolCallId |-> "<undefined>"]>>
         /\ published = newMessages

\* A run at its cap: as many requests and assistant messages as maxIterations,
\* the last response still asking for tools.
C27_Witness ==
    /\ pc = "done"
    /\ maxIterations = 2
    /\ iteration = maxIterations
    /\ requests = maxIterations
    /\ Len(SelectSeq(newMessages, LAMBDA m : m.role = "assistant")) = maxIterations
    /\ responses[Len(responses)].finishReason = "tool_calls"

\* A run with maxIterations 0 has returned.
C27_WitnessZero ==
    /\ pc = "done"
    /\ maxIterations = 0
    /\ Len(newMessages) = 1

-----------------------------------------------------------------------------
(* Termination *)

\* C28: when every refresh, completion request and dispatch settles, the run
\* ends by returning its list and stays ended; and whenever a failure of a
\* refresh or a completion request has been thrown inside the loop, the run has
\* ended that way, the failure caught; a failed parse or dispatch does not end it.
C28_RunReturns ==
    /\ <>[](pc = "done")
    /\ [](caught # <<>> => pc = "done" /\ Len(caught) = 1)
    /\ [](pc \in {"loop", "fetchToken", "request", "tools", "dispatch", "done"})

\* A run that met a failed dispatch, went on, and ended on a failed completion
\* request, which it reported and returned from.
C28_Witness ==
    /\ pc = "done"
    /\ Len(caught) = 1
    /\ errorLog = caught
    /\ \E k \in 1..Len(toolCallLog) : toolCallLog[k].status = "error"
    /\ Len(responses) = 1
    /\ requests = 2

\* A run ended on the not-authenticated failure.
C28_WitnessCredential ==
    /\ pc = "done"
    /\ caught = <<<<"Not authenticated. Please sign in first.">>>>

-----------------------------------------------------------------------------
(* What onMessage publishes and what the run returns *)

\* C29: the first list handed to onMessage is the user message alone; every list
\* handed to it afterwards begins with the one handed before; and a run that has
\* ended returns the list it published last, however it ended.
C29_ReturnedIsLastPublished ==
    /\ published = <<[role |-> "user", content |-> <<"hello">>, toolCalls |-> <<>>,
                      toolCallId |-> "<undefined>"]>>
    /\ [][/\ Len(published) <= Len(published')
          /\ SubSeq(published', 1, Len(published)) = published]_vars
    /\ [](pc = "done" => newMessages = published)
    /\ [](/\ Len(published) <= Len(newMessages)
          /\ SubSeq(newMessages, 1, Len(published)) = published)

\* A run cancelled in its tool loop after one reply, which returned the user
\* message, the assistant message and that reply, all published.
C29_Witness ==
    /\ pc = "done"
    /\ aborted
    /\ abortedAt.pc = "dispatch"
    /\ Len(published) = 3
    /\ published = newMessages
    /\ published[3].role = "tool"

\* A run ended by a failed completion request in its second round.
C29_WitnessFatal ==
    /\ pc = "done"
    /\ errorLog # <<>>
    /\ Len(responses) = 1
    /\ published = newMessages
    /\ published[Len(published)].role = "assistant"
    /\ Len(published) >= 4

-----------------------------------------------------------------------------
(* The enableTools setting *)

\* C30: a run with enableTools false sends every completion request without
\* tool declarations, and dispatches no tool call, whatever the responses ask for.
C30_DisabledToolsNeverDispatch ==
    ~enableTools =>
        /\ \A i \in 1..Len(sentTools) : sentTools[i] = {}
        /\ dispatchLog = <<>>

-----------------------------------------------------------------------------
(* The history the caller hands in *)

\* C31: no step of a run changes the history it was given, in length, messages
\* or order; what the run produces goes to its new-message list alone.
C31_HistoryIsUntouched ==
    [][/\ history' = history
       /\ Len(newMessages') >= Len(newMessages)
       /\ SubSeq(newMessages', 1, Len(newMessages)) = newMessages]_vars

\* A run given a history of four messages read it for two requests, produced an
\* assistant message and a tool message, and ended.
C31_Witness ==
    /\ pc = "done"
    /\ Len(history) = 4
    /\ history[3].role = "tool"
    /\ requests = 2
    /\ Len(sent) = 2
    /\ Len(newMessages) >= 3
    /\ \E i \in 1..Len(newMessages) : newMessages[i].role = "tool"

-----------------------------------------------------------------------------
(* The controller the Stop button aborts *)

\* C32: whenever a run is in flight whose signal has not been set, abortRef
\* holds the controller whose signal that run was given, whatever the order of
\* Send, Stop and the returns of earlier runs.
C32_AbortRefIsTheRunInFlight ==
    \A r \in 1..Len(view.runs) :
        (~view.runs[r].returned /\ ~view.runs[r].aborted) => view.abortRef = r

-----------------------------------------------------------------------------
(* A refreshed token in the iterations that follow *)

\* The shared state holds a token a refresh of this run has stored (runs start
\* with the token "tokA" or none), and the clock is before its expiry.
RefreshedTokenIsFresh ==
    /\ authState.accessToken.token = "tokB"
    /\ now < authState.accessToken.expiresAt * 1000

\* C33: when a refresh answers, the shared authentication state holds the
\* answered token and expiry from that step on; an iteration that begins while
\* the state holds a refreshed token not yet expired sees that token, returns it
\* without a refresh and without onUpdate, and goes on to its completion
\* request; and a refreshed token is only ever replaced by another refresh.
C33_RefreshedTokenIsReused ==
    [][/\ (pc = "fetchToken" /\ pc' = "request") =>
             /\ Len(tokenLog') = 4
             /\ authState'.accessToken = tokenLog'[3].update.accessToken
             /\ authState'.accessToken.token = "tokB"
             /\ authState'.pat = authState.pat
       /\ (pc = "loop" /\ pc' # "loop" /\ RefreshedTokenIsFresh
                       /\ iteration < maxIterations /\ ~aborted) =>
             /\ pc' = "request"
             /\ tokenLog' = <<[event |-> "call", auth |-> authState, now |-> now],
                              [event |-> "return", token |-> "tokB"]>>
             /\ authState' = authState
       /\ (authState.accessToken.token = "tokB" /\ pc # "fetchToken") =>
             authState' = authState]_vars

\* The second iteration of a run whose first iteration refreshed the token: it
\* found the refreshed token unexpired and sent its request without a refresh.
C33_Witness ==
    /\ pc = "request"
    /\ iteration = 1
    /\ requests = 2
    /\ Len(tokenLog) = 2
    /\ tokenLog[1].auth.accessToken.token = "tokB"
    /\ tokenLog[1].now < tokenLog[1].auth.accessToken.expiresAt * 1000
    /\ tokenLog[2].token = "tokB"

====
